---- MODULE Spec2Model ----
(***************************************************************************)
(* State-snapshot service of ipld-eth-state-snapshot: the coordinator      *)
(* (Service.CreateSnapshot), the worker pool (createSnapshotAsync), the    *)
(* per-worker trie walker (createSnapshot, createSubTrieSnapshot,          *)
(* createNodeSnapshot, storageSnapshot), the batching publisher and the    *)
(* iterator tracker with its recovery file.                                *)
(*                                                                         *)
(* A trie is a finite set of nodes named by their nibble paths; iteration  *)
(* order is the pre-order of the paths (a prefix before its extensions,    *)
(* then by nibble).  Value pseudo-nodes are left out: resolveNode answers  *)
(* nil for them and the walker changes no state on them.                   *)
(***************************************************************************)
EXTENDS Integers, Sequences, FiniteSets, Bags, TLC

\* ------------------------------------------------------------------ bounds
\* Largest worker count a run is configured with.
MaxWorkers == 3
\* Number of process runs in one behaviour (the first run and its re-run).
MaxRuns == 2
\* Number of catalog failures the environment may inject in one behaviour.
MaxFaults == 1

\* --------------------------------------------------------- program constants
defaultBatchSize == 100

\* -------------------------------------------------------------------- paths
\* it.Path() == nil : the iterator has not been advanced yet.
NilPath == <<-1>>
\* terminator nibble appended by keybytesToHex / CompactToHex to a full key
Terminator == 16

\* bytes.HasPrefix(q, p)
HasPrefix(q, p) == Len(p) <= Len(q) /\ SubSeq(q, 1, Len(p)) = p

\* bytes.Compare(a, b) < 0
RECURSIVE PathLess(_, _)
PathLess(a, b) ==
  IF a = <<>> THEN b # <<>>
  ELSE IF b = <<>> THEN FALSE
  ELSE IF Head(a) = Head(b) THEN PathLess(Tail(a), Tail(b))
  ELSE Head(a) < Head(b)

MinPath(S) == CHOOSE m \in S : \A x \in S : x = m \/ PathLess(m, x)

\* ------------------------------------------------------------------ archive
\* Code hashes and storage roots are named; "" is Keccak256(empty) resp. the
\* empty-trie root.
emptyCodeHash == ""
emptyContractRoot == ""

\* The state trie at header.Root: a contract with storage at <<3, 2>>, an
\* account without code at <<3, 7>>, and at <<12>> a second contract with the
\* code of the first and no storage.  nelem is the number of RLP elements of the
\* node, hp the first byte of its first element (the hex-prefix byte),
\* partial the nibbles of its compact key.
StateTrie ==
  { [path |-> <<>>,     nelem |-> 17, hp |-> 0,  partial |-> <<>>,
     codeHash |-> "", storageRoot |-> ""],
    [path |-> <<3>>,    nelem |-> 17, hp |-> 0,  partial |-> <<>>,
     codeHash |-> "", storageRoot |-> ""],
    [path |-> <<3, 2>>, nelem |-> 2,  hp |-> 53, partial |-> <<5>>,
     codeHash |-> "cA", storageRoot |-> "sA"],
    [path |-> <<3, 7>>, nelem |-> 2,  hp |-> 48, partial |-> <<0>>,
     codeHash |-> "", storageRoot |-> ""],
    [path |-> <<12>>,   nelem |-> 2,  hp |-> 32, partial |-> <<4, 4>>,
     codeHash |-> "cA", storageRoot |-> ""] }

StatePaths == { n.path : n \in StateTrie }
StateNode(p) == CHOOSE n \in StateTrie : n.path = p

\* Storage tries by root.  A node whose RLP is shorter than 32 bytes is
\* embedded in its parent and has the null hash (hashed = FALSE).
StorageTrie(sr) ==
  IF sr = "sA"
  THEN { [path |-> <<>>,  nelem |-> 17, hp |-> 0,  hashed |-> TRUE],
         [path |-> <<4>>, nelem |-> 2,  hp |-> 32, hashed |-> TRUE],
         [path |-> <<9>>, nelem |-> 2,  hp |-> 32, hashed |-> FALSE] }
  ELSE {}

StorageNode(sr, p) == CHOOSE n \in StorageTrie(sr) : n.path = p
AllCodes == { n.codeHash : n \in StateTrie } \ {emptyCodeHash}

\* CheckKeyType(elements): the node type of a decoded element list, a
\* sequence of byte strings.  "Unknown" stands for (Unknown, error); "Fault"
\* for the run-time panic of elements[0].([]byte)[0] on an empty first
\* element.
CheckKeyType(elements) ==
  IF Len(elements) > 2 THEN "Branch"
  ELSE IF Len(elements) < 2 THEN "Unknown"
  ELSE IF Len(elements[1]) = 0 THEN "Fault"
  ELSE IF elements[1][1] \div 16 \in {0, 1} THEN "Extension"
  ELSE IF elements[1][1] \div 16 \in {2, 3} THEN "Leaf"
  ELSE "Unknown"

\* the decoded elements of a node of the archive: nelem byte strings, the
\* first starting with the byte hp
NodeElements(n) == [i \in 1..n.nelem |-> IF i = 1 THEN <<n.hp>> ELSE <<>>]

\* Full keys of the accounts, and the watched paths built from them:
\* keybytesToHex(Keccak256(addr)) ends with the terminator nibble.
keybytesToHex(key) == key \o <<Terminator>>
\* Hashed addresses a run may watch: two accounts of the trie, one key that
\* ends inside the leaf at <<3, 2>> and one that leaves the trie at <<3>>.
WatchChoices ==
  { {}, {<<3, 2, 5>>}, {<<12, 4, 4>>}, {<<3, 2, 6>>}, {<<3, 9, 9>>},
    {<<3, 7, 0>>, <<12, 4, 4>>} }

\* ---------------------------------------------------------------- variables
VARIABLES
  workers,        \* params.Workers
  watched,        \* hashed keys of params.WatchedAddresses
  maxBatchSize,   \* Service.maxBatchSize
  codeDB,         \* code hashes the archive holds bytes for
  archiveFault,   \* "none", or what the archive lacks: "header", "root"
  faults,         \* catalog failures the environment may still inject
  run,            \* number of the process run
  cpc,            \* position of CreateSnapshot (the coordinator)
  result,         \* value CreateSnapshot returned
  iters,          \* the tracked iterators, one per walker
  restored,       \* iters came from tracker.restore (iters != nil)
  wk,             \* per walker: position and locals of createSnapshot
  txs,            \* per walker: the transactions it opened, in order
  currBatchSize,  \* publisher.currBatchSize, shared by all walkers
  halted,         \* the tracker's halt flag (set by SIGINT/SIGTERM)
  waiter,         \* position of the goroutine that waits for the WaitGroup
  emitted,        \* bag of the records published in this run
  catalog,        \* committed rows of the catalog database
  recoveryFile,   \* the recovery file: [exists, recs]
  prev,           \* what the previous run left: [st, catalog, file, emitted]
  elements,       \* a decoded element list handed to CheckKeyType
  nodeType        \* what CheckKeyType answered for it ("none": not called)

params == <<workers, watched, maxBatchSize, codeDB, archiveFault>>
vars == <<workers, watched, maxBatchSize, codeDB, archiveFault, faults, run,
          cpc, result, iters, restored, wk, txs, currBatchSize, halted,
          waiter, emitted, catalog, recoveryFile, prev, elements, nodeType>>

\* the classifier's input and answer, which no step of a run changes
classified == <<elements, nodeType>>

WorkerIds == 1..MaxWorkers

\* ------------------------------------------------------------------ filter
\* s.watchingAddresses
watchingAddresses == watched # {}
\* seekingPaths
seekingPaths == { keybytesToHex(k) : k \in watched }

\* variant: every path counts as a path of interest
validPathAny(currentPath, seeking) == TRUE

validPath(currentPath, seeking) ==
  \E seekingPath \in seeking : HasPrefix(seekingPath, currentPath)

\* the test of the walker loops: the node is skipped with its subtrie
Skipped(p) == watchingAddresses /\ ~validPath(p, seekingPaths)

\* --------------------------------------------------------------- iterators
\* A bounded node iterator over the state trie is [lo, hi, path, status]:
\* it yields the nodes at or after lo and before hi (hi = NilPath: no upper
\* bound); path is Path().
After(pos, n) == pos = NilPath \/ PathLess(pos, n)

\* it.Next(descend) of the bounded iterator: the next node in pre-order, the
\* subtrie of the current node left out unless descend; NilPath at the end.
NextNode(pos, descend, lo, hi) ==
  LET cands == { n \in StatePaths :
                   /\ After(pos, n)
                   /\ ~PathLess(n, lo)
                   /\ (descend \/ pos = NilPath \/ ~HasPrefix(n, pos)) }
  IN IF cands = {} THEN NilPath
     ELSE IF hi = NilPath \/ PathLess(MinPath(cands), hi) THEN MinPath(cands)
     ELSE NilPath

\* Next(descend) of the iterator createSubTrieSnapshot opens on the subtrie
\* at prefix (unbounded, not tracked), in absolute paths.
SubNext(prefix, pos, descend) ==
  LET cands == { n \in StatePaths :
                   /\ HasPrefix(n, prefix) /\ n # prefix
                   /\ PathLess(pos, n)
                   /\ (descend \/ ~HasPrefix(n, pos)) }
  IN IF cands = {} THEN NilPath ELSE MinPath(cands)

\* The node whose createSubTrieSnapshot frame iterates p.
Parent(p) ==
  LET anc == { n \in StatePaths : HasPrefix(p, n) /\ n # p }
  IN CHOOSE a \in anc : \A b \in anc : Len(b) <= Len(a)

\* iter.SubtrieIterators(tree, n): n iterators over consecutive ranges of
\* the first nibble; the first starts before the root, the others stand on
\* the root just before their first child.
Boundary(k, n) == (k * 16) \div n
SubtrieIterators(n) ==
  [ i \in 1..n |->
      [ lo     |-> IF i = 1 THEN <<>> ELSE <<Boundary(i - 1, n)>>,
        hi     |-> IF i = n THEN NilPath ELSE <<Boundary(i, n)>>,
        path   |-> IF i = 1 THEN NilPath ELSE <<>>,
        status |-> "Pending" ] ]

\* tree.NodeIterator(nil)
WholeTrieIterator ==
  [lo |-> <<>>, hi |-> NilPath, path |-> NilPath, status |-> "Pending"]

\* ----------------------------------------------------------------- records
\* A published record: tbl is "header", "state", "storage" or "code"; sp is
\* the state path, xp the storage path, h the code hash, ty the node type.
Row(tbl, sp, xp, h, ty) == [tbl |-> tbl, sp |-> sp, xp |-> xp, h |-> h, ty |-> ty]
HeaderRow == Row("header", <<>>, <<>>, "", "")
StateRow(n) == Row("state", n.path, <<>>, "", CheckKeyType(NodeElements(n)))
StorageRow(statePath, n) ==
  Row("storage", statePath, n.path, "", CheckKeyType(NodeElements(n)))
\* the blob row is keyed by the multihash of the code hash alone
CodeRow(codeHash) == Row("code", <<>>, <<>>, codeHash, "")

\* the unique key of a row: (header_id, state_path), (state, storage_path),
\* the blob key
RowKey(r) == <<r.tbl, r.sp, r.xp, r.h>>

\* INSERT ... ON CONFLICT (key) DO UPDATE, for the rows of one transaction
Upsert(cat, rows) ==
  { x \in cat : \A r \in rows : RowKey(x) # RowKey(r) } \cup rows

\* One more publish call in the log of this run.  A code publication is
\* logged with the path of the account leaf that caused it.
Emit(bag, r) == bag (+) SetToBag({r})

\* ------------------------------------------------------------ transactions
NewTx == [st |-> "open", rows |-> {}]

\* tx.Commit(): sql.ErrTxDone unless the transaction is open
CommitFails(txseq, h) == txseq[h].st # "open"
Committed(txseq, h) == [txseq EXCEPT ![h].st = "committed"]

\* variant: the rotation leaves the counter as it was
PrepareTxForBatchKeepsCount(txseq, h, maxBatch, cbs, beginFails) ==
  IF maxBatch <= cbs
  THEN IF CommitFails(txseq, h)
       THEN [err |-> TRUE, tx |-> h, txs |-> txseq, cbs |-> cbs, rows |-> {}]
       ELSE IF beginFails
       THEN [err |-> TRUE, tx |-> h, txs |-> Committed(txseq, h),
             cbs |-> cbs, rows |-> txseq[h].rows]
       ELSE [err |-> FALSE, tx |-> Len(txseq) + 1,
             txs |-> Append(Committed(txseq, h), NewTx),
             cbs |-> cbs, rows |-> txseq[h].rows]
  ELSE [err |-> FALSE, tx |-> h, txs |-> txseq, cbs |-> cbs, rows |-> {}]

\* publisher.PrepareTxForBatch(tx, maxBatchSize) on the transactions of one
\* walker: the handle returned, the transactions and the counter after it,
\* and the rows its commit made durable. beginFails: db.Beginx() returns an
\* error, which leaves the committed transaction without a successor.
PrepareTxForBatch(txseq, h, maxBatch, cbs, beginFails) ==
  IF maxBatch <= cbs
  THEN IF CommitFails(txseq, h)
       THEN [err |-> TRUE, tx |-> h, txs |-> txseq, cbs |-> cbs, rows |-> {}]
       ELSE IF beginFails
       THEN [err |-> TRUE, tx |-> h, txs |-> Committed(txseq, h),
             cbs |-> cbs, rows |-> txseq[h].rows]
       ELSE [err |-> FALSE, tx |-> Len(txseq) + 1,
             txs |-> Append(Committed(txseq, h), NewTx),
             cbs |-> 0, rows |-> txseq[h].rows]
  ELSE [err |-> FALSE, tx |-> h, txs |-> txseq, cbs |-> cbs, rows |-> {}]

\* the outcomes db.Beginx() can have when a rotation has committed: failure
\* is one of the catalog failures the environment may inject
BeginOutcomes(txseq, h, maxBatch, cbs, budget) ==
  IF budget > 0 /\ maxBatch <= cbs /\ ~CommitFails(txseq, h)
  THEN {FALSE, TRUE} ELSE {FALSE}

\* a write through handle h: refused once h is committed or rolled back
WriteFails(txseq, h) == txseq[h].st # "open"
Written(txseq, h, r) == [txseq EXCEPT ![h].rows = @ \cup {r}]

\* CommitOrRollback(tx, err): commit when err is nil, roll back otherwise;
\* the transactions after it, the rows made durable and the error it
\* returns. commitFails: the catalog refuses the commit of an open
\* transaction, which ends it without making its rows durable.
CommitOrRollback(txseq, h, err, commitFails) ==
  IF txseq[h].st # "open"
  THEN [txs |-> txseq, rows |-> {}, err |-> IF err = "" THEN "tx done" ELSE err]
  ELSE IF err = ""
       THEN IF commitFails
            THEN [txs |-> [txseq EXCEPT ![h].st = "rolledback"], rows |-> {},
                  err |-> "catalog"]
            ELSE [txs |-> Committed(txseq, h), rows |-> txseq[h].rows,
                  err |-> ""]
       ELSE [txs |-> [txseq EXCEPT ![h].st = "rolledback"], rows |-> {},
             err |-> err]

\* the outcomes the commit of an open transaction can have: failure is one
\* of the catalog failures the environment may inject
CommitOutcomes(txseq, h, budget) ==
  IF budget > 0 /\ txseq[h].st = "open" THEN {FALSE, TRUE} ELSE {FALSE}

\* ------------------------------------------------------------------ walker
\* Walker positions: "idle" not started, "begin" before BeginTx, "loop" at
\* it.Next of createSnapshot, "prep" in createNodeSnapshot before
\* PrepareTxForBatch, "pub" before PublishStateNode, "code" before
\* PublishCode, "sprep"/"spub" in the loop of storageSnapshot, "ret" at the
\* deferred CommitOrRollback, "send" blocked on the error channel, "done"
\* after wg.Done, "killed" by the exit of the process. cerr: what the
\* deferred function assigned to err.
IdleWalker ==
  [pc |-> "idle", cur |-> NilPath, scur |-> NilPath, root |-> FALSE,
   descend |-> FALSE, tx |-> 0, ntx |-> 0, err |-> "", cerr |-> ""]

\* the loop of createSnapshot: nodes off the paths of interest are passed
\* over with Next(false)
RECURSIVE TopScan(_, _, _, _)
TopScan(pos, descend, lo, hi) ==
  LET n == NextNode(pos, descend, lo, hi)
  IN IF n = NilPath THEN NilPath
     ELSE IF Skipped(n) THEN TopScan(n, FALSE, lo, hi)
     ELSE n

\* the loop of createSubTrieSnapshot(prefix)
RECURSIVE SubScan(_, _, _)
SubScan(prefix, pos, descend) ==
  LET n == SubNext(prefix, pos, descend)
  IN IF n = NilPath THEN NilPath
     ELSE IF Skipped(n) THEN SubScan(prefix, n, FALSE)
     ELSE n

\* createSubTrieSnapshot frames returning: the next node of the innermost
\* frame that has one, or the loop of createSnapshot (top) when every frame
\* below the tracked iterator's node is exhausted.
RECURSIVE Unwind(_, _)
Unwind(c, topPath) ==
  IF c = topPath THEN [top |-> TRUE, path |-> c]
  ELSE LET s == SubScan(Parent(c), c, FALSE)
       IN IF s # NilPath THEN [top |-> FALSE, path |-> s]
          ELSE Unwind(Parent(c), topPath)

\* variant: the first Next() of the loop never descends
DescendNever(path) == FALSE

\* bytes.Equal(it.Path(), []byte{}): true of the nil path as well
DescendFirst(path) == path = <<>> \/ path = NilPath

\* createNodeSnapshot returned nil for the node at c: the root is followed
\* by the loop of createSnapshot, any other node by createSubTrieSnapshot.
AfterNode(w0, c, topPath) ==
  IF w0.root
  THEN [w0 EXCEPT !.pc = "loop", !.descend = DescendFirst(topPath)]
  ELSE LET ch == SubScan(c, c, TRUE)
           up == Unwind(c, topPath)
       IN IF ch # NilPath THEN [w0 EXCEPT !.pc = "prep", !.cur = ch]
          ELSE IF up.top THEN [w0 EXCEPT !.pc = "loop", !.descend = FALSE]
          ELSE [w0 EXCEPT !.pc = "prep", !.cur = up.path]

\* variant: storageSnapshot stops after the root of the storage trie
NextStorageRootOnly(sr, pos) ==
  IF pos = NilPath /\ StorageTrie(sr) # {} THEN <<>> ELSE NilPath

\* the loop of storageSnapshot: Next(true) over the whole storage trie;
\* resolveNode answers nil for a node with the null hash
NextStorage(sr, pos) ==
  LET cands == { n.path : n \in { m \in StorageTrie(sr) :
                                     m.hashed /\ After(pos, m.path) } }
  IN IF cands = {} THEN NilPath ELSE MinPath(cands)

\* storageSnapshot(sr, ...) entered, or its loop continued after pos
StorageStep(w0, sr, pos, topPath) ==
  IF sr = emptyContractRoot THEN AfterNode(w0, w0.cur, topPath)
  ELSE IF NextStorage(sr, pos) = NilPath THEN AfterNode(w0, w0.cur, topPath)
  ELSE [w0 EXCEPT !.pc = "sprep", !.scur = NextStorage(sr, pos)]

\* the walker returns err: the deferred CommitOrRollback is next
Failing(w0, e) == [w0 EXCEPT !.pc = "ret", !.err = e]

\* ----------------------------------------------------------------- tracker
\* The recovery file holds one record per unfinished iterator.  Paths are
\* written in hex and parsed back: the nil path and the empty path both
\* read back as the empty path.
HexPath(p) == IF p = NilPath THEN <<>> ELSE p
NoFile == [exists |-> FALSE, recs |-> <<>>]
RecordOf(it) == [lo |-> it.lo, path |-> HexPath(it.path), hi |-> it.hi]

\* tracker.restore(tree): one tracked iterator per record, standing just
\* before the record's current path, so that its first Next() yields that
\* path again.  Its Path() is then the path of the node above: the empty
\* path for a child of the root, and nil for a record taken at or before
\* the root of the whole trie.
Restored(file) ==
  [ i \in 1..Len(file.recs) |->
      LET r == file.recs[i]
      IN [ lo |-> IF r.path = <<>> THEN r.lo ELSE r.path,
           hi |-> r.hi,
           path |-> IF r.path = <<>>
                    THEN (IF r.lo = <<>> THEN NilPath ELSE <<>>)
                    ELSE SubSeq(r.path, 1, Len(r.path) - 1),
           status |-> "Pending" ] ]

RECURSIVE OpenRecords(_)
OpenRecords(its) ==
  IF its = <<>> THEN <<>>
  ELSE IF Head(its).status = "Done" THEN OpenRecords(Tail(its))
  ELSE <<RecordOf(Head(its))>> \o OpenRecords(Tail(its))

\* tracker.haltAndDump(): the file it leaves
HaltAndDumpFile(its) ==
  IF OpenRecords(its) = <<>> THEN NoFile
  ELSE [exists |-> TRUE, recs |-> OpenRecords(its)]

\* a tracked iterator observes the halt flag at Next() once it has been read
ObservesHalt(it) == halted /\ it.status = "Active"

\* ------------------------------------------------------------------- Init
NoResult == [st |-> "none", from |-> 0, err |-> ""]
NoPrev == [st |-> "none", catalog |-> {}, file |-> FALSE, emitted |-> EmptyBag]

\* a recovery file left by a halted run of two workers
TwoRecordFile ==
  [exists |-> TRUE,
   recs |-> << [lo |-> <<>>,  path |-> <<3>>, hi |-> <<8>>],
               [lo |-> <<8>>, path |-> <<>>,  hi |-> NilPath] >>]

\* a recovery file that exists and holds no record
EmptyFile == [exists |-> TRUE, recs |-> <<>>]

BatchChoices == {1, 3, defaultBatchSize}

InitProcess ==
  /\ run = 1
  /\ cpc = "start"
  /\ result = NoResult
  /\ iters = <<>>
  /\ restored = FALSE
  /\ wk = [w \in WorkerIds |-> IdleWalker]
  /\ txs = [w \in WorkerIds |-> <<>>]
  /\ currBatchSize = 0
  /\ halted = FALSE
  /\ waiter = "idle"
  /\ emitted = EmptyBag
  /\ catalog = {}
  /\ prev = NoPrev
  /\ elements = <<>>
  /\ nodeType = "none"

Init ==
  /\ workers \in 1..MaxWorkers
  /\ watched \in WatchChoices
  /\ maxBatchSize \in BatchChoices
  /\ codeDB \in {AllCodes, {}}
  /\ archiveFault \in {"none", "header", "root"}
  /\ faults \in 0..MaxFaults
  /\ recoveryFile \in {NoFile, TwoRecordFile, EmptyFile}
  /\ InitProcess

\* ------------------------------------------------------------ coordinator
\* CreateSnapshot up to the tracker: header read, PublishHeader, OpenTrie.
ReadHeader ==
  /\ cpc = "start"
  /\ IF archiveFault = "header"
     THEN /\ result' = [st |-> "err", from |-> 0, err |-> "no header"]
          /\ cpc' = "failed"
          /\ UNCHANGED catalog
     ELSE IF archiveFault = "root"
     THEN /\ result' = [st |-> "err", from |-> 0, err |-> "no state root"]
          /\ cpc' = "failed"
          /\ catalog' = Upsert(catalog, {HeaderRow})
     ELSE /\ result' = result
          /\ cpc' = "restore"
          /\ catalog' = Upsert(catalog, {HeaderRow})
  /\ UNCHANGED <<restored, params, faults, run, iters, wk, txs, currBatchSize, halted,
                 waiter, emitted, recoveryFile, prev, classified>>

\* PublishHeader fails
PublishHeaderFails ==
  /\ cpc = "start"
  /\ archiveFault # "header"
  /\ faults > 0
  /\ faults' = faults - 1
  /\ result' = [st |-> "err", from |-> 0, err |-> "catalog"]
  /\ cpc' = "failed"
  /\ UNCHANGED <<restored, params, run, iters, wk, txs, currBatchSize, halted, waiter,
                 emitted, catalog, recoveryFile, prev, classified>>

\* variant: any number of restored iterators is accepted
TooManyNever(its, n) == FALSE

\* the test on the number of restored iterators
TooManyRestored(its, n) == n < Len(its)

\* restore, or partition when there is no recovery file
RestoreOrPartition ==
  /\ cpc = "restore"
  /\ IF recoveryFile.exists
     THEN /\ iters' = Restored(recoveryFile)
          /\ restored' = TRUE
          /\ IF TooManyRestored(Restored(recoveryFile), workers)
             THEN /\ result' = [st |-> "err", from |-> 0, err |-> "workers"]
                  /\ cpc' = "failed"
             ELSE /\ result' = result
                  /\ cpc' = "dispatch"
     ELSE /\ iters' = IF workers > 1 THEN SubtrieIterators(workers)
                      ELSE <<WholeTrieIterator>>
          /\ restored' = FALSE
          /\ result' = result
          /\ cpc' = "dispatch"
  /\ UNCHANGED <<params, faults, run, wk, txs, currBatchSize, halted, waiter,
                 emitted, catalog, recoveryFile, prev, classified>>

\* the dispatch test of CreateSnapshot
RunsAsync(its) == Len(its) > 0

\* createSnapshotAsync: one goroutine per iterator and the waiter
Dispatch ==
  /\ cpc = "dispatch"
  /\ IF RunsAsync(iters)
     THEN /\ wk' = [w \in WorkerIds |->
                      IF w <= Len(iters) THEN [IdleWalker EXCEPT !.pc = "begin"]
                      ELSE IdleWalker]
          /\ waiter' = "wait"
          /\ cpc' = "select"
          /\ result' = result
     ELSE \* iters[0] of an empty list: the panic unwinds through the
          \* deferred haltAndDump
          /\ wk' = wk
          /\ waiter' = waiter
          /\ cpc' = "defer"
          /\ result' = [st |-> "panic", from |-> 0, err |-> "index out of range"]
  /\ UNCHANGED <<restored, params, faults, run, iters, txs, currBatchSize, halted,
                 emitted, catalog, recoveryFile, prev, classified>>

Spawned == { w \in WorkerIds : wk[w].pc # "idle" }

\* variant: the waiter wakes as soon as one walker is done
WaitGroupDoneAny == \E w \in Spawned : wk[w].pc = "done"

\* the WaitGroup reached zero
WaitGroupDone == \A w \in Spawned : wk[w].pc = "done"

WaiterWakes ==
  /\ waiter = "wait"
  /\ WaitGroupDone
  /\ waiter' = "send"
  /\ UNCHANGED <<restored, params, faults, run, cpc, result, iters, wk, txs,
                 currBatchSize, halted, emitted, catalog, recoveryFile, prev, classified>>

\* select: case err = <-errors
ReceiveError(w) ==
  /\ cpc = "select"
  /\ wk[w].pc = "send"
  /\ result' = [st |-> "err", from |-> w, err |-> wk[w].err]
  /\ wk' = [wk EXCEPT ![w].pc = "done"]
  /\ cpc' = "defer"
  /\ UNCHANGED <<restored, params, faults, run, iters, txs, currBatchSize, halted,
                 waiter, emitted, catalog, recoveryFile, prev, classified>>

\* select: case <-done
ReceiveDone ==
  /\ cpc = "select"
  /\ waiter = "send"
  /\ result' = [st |-> "ok", from |-> 0, err |-> ""]
  /\ waiter' = "end"
  /\ cpc' = "defer"
  /\ UNCHANGED <<restored, params, faults, run, iters, wk, txs, currBatchSize, halted,
                 emitted, catalog, recoveryFile, prev, classified>>

\* variant: CreateSnapshot returns without the deferred call
HaltAndDumpSkipped ==
  /\ cpc = "defer"
  /\ cpc' = "returned"
  /\ UNCHANGED <<restored, params, faults, run, result, iters, wk, txs, currBatchSize,
                 halted, waiter, emitted, catalog, recoveryFile, prev, classified>>

\* the deferred tracker.haltAndDump()
HaltAndDump ==
  /\ cpc = "defer"
  /\ recoveryFile' = HaltAndDumpFile(iters)
  /\ cpc' = "returned"
  /\ UNCHANGED <<restored, params, faults, run, result, iters, wk, txs, currBatchSize,
                 halted, waiter, emitted, catalog, prev, classified>>

\* the process ends: goroutines still running are gone, and so is what
\* their open transactions hold
Exit ==
  /\ cpc \in {"returned", "failed"}
  /\ cpc' = "exited"
  /\ wk' = [w \in WorkerIds |->
              IF wk[w].pc \in {"idle", "done"} THEN wk[w]
              ELSE [wk[w] EXCEPT !.pc = "killed"]]
  /\ UNCHANGED <<restored, params, faults, run, result, iters, txs, currBatchSize,
                 halted, waiter, emitted, catalog, recoveryFile, prev, classified>>

\* SIGINT / SIGTERM
Signal ==
  /\ cpc = "select"
  /\ ~halted
  /\ halted' = TRUE
  /\ UNCHANGED <<restored, params, faults, run, cpc, result, iters, wk, txs,
                 currBatchSize, waiter, emitted, catalog, recoveryFile, prev, classified>>

\* the command is run again, with n workers
Rerun(n) ==
  /\ cpc = "exited"
  /\ run < MaxRuns
  /\ run' = run + 1
  /\ prev' = [st |-> result.st, catalog |-> catalog,
              file |-> recoveryFile.exists, emitted |-> emitted]
  /\ cpc' = "start"
  /\ result' = NoResult
  /\ iters' = <<>>
  /\ restored' = FALSE
  /\ wk' = [w \in WorkerIds |-> IdleWalker]
  /\ txs' = [w \in WorkerIds |-> <<>>]
  /\ currBatchSize' = 0
  /\ halted' = FALSE
  /\ waiter' = "idle"
  /\ emitted' = EmptyBag
  /\ workers' = n
  /\ UNCHANGED <<watched, maxBatchSize, codeDB, archiveFault, faults, catalog,
                 recoveryFile, classified>>

\* ... with the same parameters
Restart == Rerun(workers)

\* ----------------------------------------------------------- walker steps
Top(w) == iters[w]
walkerFrame ==
  <<params, run, cpc, result, restored, halted, waiter, recoveryFile, prev,
    classified>>

\* createSnapshot: BeginTx, and for a fresh iterator the step to the root
Begin(w) ==
  /\ wk[w].pc = "begin"
  /\ txs' = [txs EXCEPT ![w] = <<NewTx>>]
  /\ IF Top(w).path = NilPath
     THEN LET n == NextNode(NilPath, TRUE, Top(w).lo, Top(w).hi)
          IN IF n = NilPath
             THEN /\ iters' = [iters EXCEPT ![w].status = "Done"]
                  /\ wk' = [wk EXCEPT ![w] =
                              [@ EXCEPT !.pc = "loop", !.descend = TRUE,
                                        !.tx = 1, !.ntx = 1]]
             ELSE /\ iters' = [iters EXCEPT ![w].status = "Active",
                                            ![w].path = n]
                  /\ wk' = [wk EXCEPT ![w] =
                              [@ EXCEPT !.pc = "prep", !.cur = n,
                                        !.root = TRUE, !.tx = 1, !.ntx = 1]]
     ELSE /\ iters' = iters
          /\ wk' = [wk EXCEPT ![w] =
                      [@ EXCEPT !.pc = "loop", !.tx = 1, !.ntx = 1,
                                !.descend = DescendFirst(Top(w).path)]]
  /\ UNCHANGED <<walkerFrame, faults, currBatchSize, emitted, catalog>>

\* for it.Next(descend) of createSnapshot, on the tracked iterator
TopNext(w) ==
  /\ wk[w].pc = "loop"
  /\ IF ObservesHalt(Top(w))
     THEN /\ iters' = [iters EXCEPT ![w].status = "Halted"]
          /\ wk' = [wk EXCEPT ![w].pc = "ret"]
     ELSE LET n == TopScan(Top(w).path, wk[w].descend, Top(w).lo, Top(w).hi)
          IN IF n = NilPath
             THEN /\ iters' = [iters EXCEPT ![w].status = "Done"]
                  /\ wk' = [wk EXCEPT ![w].pc = "ret"]
             ELSE /\ iters' = [iters EXCEPT ![w].status = "Active",
                                            ![w].path = n]
                  /\ wk' = [wk EXCEPT ![w] =
                              [@ EXCEPT !.pc = "prep", !.cur = n,
                                        !.root = FALSE, !.descend = FALSE]]
  /\ UNCHANGED <<walkerFrame, faults, txs, currBatchSize, emitted, catalog>>

\* createNodeSnapshot: resolveNode and PrepareTxForBatch on the caller's tx
Prepare(w) ==
  /\ wk[w].pc = "prep"
  /\ \E beginFails \in BeginOutcomes(txs[w], wk[w].tx, maxBatchSize,
                                     currBatchSize, faults) :
       LET n == StateNode(wk[w].cur)
           r == PrepareTxForBatch(txs[w], wk[w].tx, maxBatchSize,
                                  currBatchSize, beginFails)
       IN IF CheckKeyType(NodeElements(n)) = "Unknown"
          THEN /\ wk' = [wk EXCEPT ![w] = Failing(@, "unknown hex prefix")]
               /\ UNCHANGED <<txs, currBatchSize, catalog, faults>>
          ELSE /\ wk' = [wk EXCEPT ![w] =
                           IF r.err
                           THEN Failing(@, IF beginFails THEN "catalog"
                                           ELSE "tx done")
                           ELSE [@ EXCEPT !.pc = "pub", !.ntx = r.tx]]
               /\ txs' = [txs EXCEPT ![w] = r.txs]
               /\ currBatchSize' = r.cbs
               /\ catalog' = Upsert(catalog, r.rows)
               /\ faults' = IF beginFails THEN faults - 1 ELSE faults
  /\ UNCHANGED <<walkerFrame, iters, emitted>>

\* variant: no account is taken to have code
HasCodeNever(n) == FALSE

\* !bytes.Equal(account.CodeHash, emptyCodeHash)
HasCode(n) == n.codeHash # emptyCodeHash

\* variant: the storage walk follows the state node at once
AfterStateSkipsCode(w0, n, topPath) ==
  IF CheckKeyType(NodeElements(n)) = "Leaf"
  THEN StorageStep(w0, n.storageRoot, NilPath, topPath)
  ELSE AfterNode(w0, n.path, topPath)

\* what follows PublishStateNode in createNodeSnapshot
AfterState(w0, n, topPath) ==
  IF CheckKeyType(NodeElements(n)) = "Leaf"
  THEN IF HasCode(n) THEN [w0 EXCEPT !.pc = "code"]
       ELSE StorageStep(w0, n.storageRoot, NilPath, topPath)
  ELSE AfterNode(w0, n.path, topPath)

\* PublishStateNode(&res.node, headerID, tx)
PublishStateNode(w) ==
  /\ wk[w].pc = "pub"
  /\ LET n == StateNode(wk[w].cur)
     IN IF WriteFails(txs[w], wk[w].ntx)
        THEN /\ wk' = [wk EXCEPT ![w] = Failing(@, "tx done")]
             /\ UNCHANGED <<txs, currBatchSize, emitted>>
        ELSE /\ txs' = [txs EXCEPT ![w] = Written(@, wk[w].ntx, StateRow(n))]
             /\ emitted' = Emit(emitted, StateRow(n))
             /\ currBatchSize' = currBatchSize + 2
             /\ wk' = [wk EXCEPT ![w] = AfterState(@, n, Top(w).path)]
  /\ UNCHANGED <<walkerFrame, faults, iters, catalog>>

\* PublishStateNode fails in the catalog
PublishStateNodeFails(w) ==
  /\ wk[w].pc = "pub"
  /\ faults > 0
  /\ faults' = faults - 1
  /\ wk' = [wk EXCEPT ![w] = Failing(@, "catalog")]
  /\ UNCHANGED <<walkerFrame, iters, txs, currBatchSize, emitted, catalog>>

\* rawdb.ReadCode and PublishCode
PublishCode(w) ==
  /\ wk[w].pc = "code"
  /\ LET n == StateNode(wk[w].cur)
     IN IF n.codeHash \notin codeDB
        THEN /\ wk' = [wk EXCEPT ![w] = Failing(@, "missing code")]
             /\ UNCHANGED <<txs, currBatchSize, emitted>>
        ELSE IF WriteFails(txs[w], wk[w].ntx)
        THEN /\ wk' = [wk EXCEPT ![w] = Failing(@, "tx done")]
             /\ UNCHANGED <<txs, currBatchSize, emitted>>
        ELSE /\ txs' = [txs EXCEPT ![w] =
                          Written(@, wk[w].ntx, CodeRow(n.codeHash))]
             /\ emitted' = Emit(emitted, Row("code", n.path, <<>>, n.codeHash, ""))
             /\ currBatchSize' = currBatchSize + 1
             /\ wk' = [wk EXCEPT ![w] =
                         StorageStep(@, n.storageRoot, NilPath, Top(w).path)]
  /\ UNCHANGED <<walkerFrame, faults, iters, catalog>>

\* storageSnapshot: resolveNode and PrepareTxForBatch for the next node
StoragePrepare(w) ==
  /\ wk[w].pc = "sprep"
  /\ \E beginFails \in BeginOutcomes(txs[w], wk[w].ntx, maxBatchSize,
                                     currBatchSize, faults) :
       LET n == StorageNode(StateNode(wk[w].cur).storageRoot, wk[w].scur)
           r == PrepareTxForBatch(txs[w], wk[w].ntx, maxBatchSize,
                                  currBatchSize, beginFails)
       IN IF CheckKeyType(NodeElements(n)) = "Unknown"
          THEN /\ wk' = [wk EXCEPT ![w] = Failing(@, "unknown hex prefix")]
               /\ UNCHANGED <<txs, currBatchSize, catalog, faults>>
          ELSE /\ wk' = [wk EXCEPT ![w] =
                           IF r.err
                           THEN Failing(@, IF beginFails THEN "catalog"
                                           ELSE "tx done")
                           ELSE [@ EXCEPT !.pc = "spub", !.ntx = r.tx]]
               /\ txs' = [txs EXCEPT ![w] = r.txs]
               /\ currBatchSize' = r.cbs
               /\ catalog' = Upsert(catalog, r.rows)
               /\ faults' = IF beginFails THEN faults - 1 ELSE faults
  /\ UNCHANGED <<walkerFrame, iters, emitted>>

\* PublishStorageNode(&res.node, headerID, statePath, tx)
PublishStorageNode(w) ==
  /\ wk[w].pc = "spub"
  /\ LET a == StateNode(wk[w].cur)
         n == StorageNode(a.storageRoot, wk[w].scur)
     IN IF WriteFails(txs[w], wk[w].ntx)
        THEN /\ wk' = [wk EXCEPT ![w] = Failing(@, "tx done")]
             /\ UNCHANGED <<txs, currBatchSize, emitted>>
        ELSE /\ txs' = [txs EXCEPT ![w] =
                          Written(@, wk[w].ntx, StorageRow(a.path, n))]
             /\ emitted' = Emit(emitted, StorageRow(a.path, n))
             /\ currBatchSize' = currBatchSize + 2
             /\ wk' = [wk EXCEPT ![w] =
                         StorageStep(@, a.storageRoot, wk[w].scur, Top(w).path)]
  /\ UNCHANGED <<walkerFrame, faults, iters, catalog>>

\* the err the deferred function of createSnapshot reads: the variable
\* declared by BeginTx, which no later statement assigns
OuterErr(w0) == ""

\* variant: a failed walker sends nothing
SendsNever(w0) == FALSE

\* the goroutine of createSnapshotAsync: if err != nil { errors <- err }
SendsError(w0) == w0.err # ""

\* the value createSnapshot returns: the operand of the return statement
\* that ended it. The result is unnamed, so what the deferred function
\* assigns to err afterwards (cerr) does not reach the caller.
Returned(w0, cerr) == w0.err

\* createSnapshot returns: the deferred err = CommitOrRollback(tx, err)
\* runs, then the goroutine sends the error returned, or is done
Return(w) ==
  /\ wk[w].pc = "ret"
  /\ \E commitFails \in CommitOutcomes(txs[w], wk[w].tx, faults) :
       LET r == CommitOrRollback(txs[w], wk[w].tx, OuterErr(wk[w]), commitFails)
           e == Returned(wk[w], r.err)
           w1 == [wk[w] EXCEPT !.err = e, !.cerr = r.err]
       IN /\ txs' = [txs EXCEPT ![w] = r.txs]
          /\ catalog' = Upsert(catalog, r.rows)
          /\ faults' = IF commitFails THEN faults - 1 ELSE faults
          /\ wk' = [wk EXCEPT ![w] =
                      [w1 EXCEPT !.pc = IF SendsError(w1) THEN "send"
                                        ELSE "done"]]
  /\ UNCHANGED <<walkerFrame, iters, currBatchSize, emitted>>

\* -------------------------------------------------------------------- Next
Next ==
  \/ ReadHeader
  \/ PublishHeaderFails
  \/ RestoreOrPartition
  \/ Dispatch
  \/ WaiterWakes
  \/ \E w \in WorkerIds : ReceiveError(w)
  \/ ReceiveDone
  \/ HaltAndDump
  \/ Exit
  \/ Signal
  \/ \E w \in WorkerIds : Begin(w)
  \/ \E w \in WorkerIds : TopNext(w)
  \/ \E w \in WorkerIds : Prepare(w)
  \/ \E w \in WorkerIds : PublishStateNode(w)
  \/ \E w \in WorkerIds : PublishStateNodeFails(w)
  \/ \E w \in WorkerIds : PublishCode(w)
  \/ \E w \in WorkerIds : StoragePrepare(w)
  \/ \E w \in WorkerIds : PublishStorageNode(w)
  \/ \E w \in WorkerIds : Return(w)

Spec == Init /\ [][Next]_vars

\* ----------------------------------------------------------------- re-runs
\* The command run again after the process has ended.
NextRerun == Next \/ Restart

InitRerun ==
  /\ workers \in 1..MaxWorkers
  /\ watched \in {{}, {<<12, 4, 4>>}}
  /\ maxBatchSize \in {3, defaultBatchSize}
  /\ codeDB = AllCodes
  /\ archiveFault = "none"
  /\ faults \in 0..MaxFaults
  /\ recoveryFile = NoFile
  /\ InitProcess

SpecRerun == InitRerun /\ [][NextRerun]_vars

\* ------------------------------------------------- one worker, then several
\* An undisturbed run with one worker, followed by an undisturbed run with
\* any number of workers against the same archive: no signal, no catalog
\* failure.
Undisturbed ==
  \/ ReadHeader
  \/ RestoreOrPartition
  \/ Dispatch
  \/ WaiterWakes
  \/ \E w \in WorkerIds : ReceiveError(w)
  \/ ReceiveDone
  \/ HaltAndDump
  \/ Exit
  \/ \E w \in WorkerIds : Begin(w)
  \/ \E w \in WorkerIds : TopNext(w)
  \/ \E w \in WorkerIds : Prepare(w)
  \/ \E w \in WorkerIds : PublishStateNode(w)
  \/ \E w \in WorkerIds : PublishCode(w)
  \/ \E w \in WorkerIds : StoragePrepare(w)
  \/ \E w \in WorkerIds : PublishStorageNode(w)
  \/ \E w \in WorkerIds : Return(w)

\* the second run starts from an empty catalog, as the first did
RerunWith(n) ==
  /\ Rerun(n)
  /\ ~recoveryFile.exists

NextWorkers == Undisturbed \/ \E n \in 1..MaxWorkers : RerunWith(n)

InitWorkers ==
  /\ workers = 1
  /\ watched \in WatchChoices
  /\ maxBatchSize \in BatchChoices
  /\ codeDB = AllCodes
  /\ archiveFault = "none"
  /\ faults = 0
  /\ recoveryFile = NoFile
  /\ InitProcess

SpecWorkers == InitWorkers /\ [][NextWorkers]_vars

\* ---------------------------------------------------------- the classifier
\* CheckKeyType applied to a decoded element list: no element, one, two,
\* three or seventeen elements, the first of them empty or one byte.
ElementLists ==
  { [i \in 1..n |-> IF i = 1 THEN first ELSE <<>>] :
      n \in {0, 1, 2, 3, 17},
      first \in {<<>>} \cup { <<b>> : b \in 0..255 } }

Classify ==
  /\ nodeType = "none"
  /\ nodeType' = CheckKeyType(elements)
  /\ UNCHANGED <<params, faults, run, cpc, result, iters, restored, wk, txs,
                 currBatchSize, halted, waiter, emitted, catalog, recoveryFile,
                 prev, elements>>

InitClassify ==
  /\ workers = 1
  /\ watched = {}
  /\ maxBatchSize = defaultBatchSize
  /\ codeDB = AllCodes
  /\ archiveFault = "none"
  /\ faults = 0
  /\ recoveryFile = NoFile
  /\ run = 1
  /\ cpc = "start"
  /\ result = NoResult
  /\ iters = <<>>
  /\ restored = FALSE
  /\ wk = [w \in WorkerIds |-> IdleWalker]
  /\ txs = [w \in WorkerIds |-> <<>>]
  /\ currBatchSize = 0
  /\ halted = FALSE
  /\ waiter = "idle"
  /\ emitted = EmptyBag
  /\ catalog = {}
  /\ prev = NoPrev
  /\ elements \in ElementLists
  /\ nodeType = "none"

SpecClassify == InitClassify /\ [][Classify]_vars

\* -------------------------------------------------------------- properties
\* the state paths, and the records, in a log of publish calls
StatePathsIn(bag) == { r.sp : r \in { x \in BagToSet(bag) : x.tbl = "state" } }
RowsIn(bag, tbl) == { r \in BagToSet(bag) : r.tbl = tbl }
Copies(bag, r) == CopiesIn(r, bag)

\* the account leaves of the state trie
Leaves == { n \in StateTrie : CheckKeyType(NodeElements(n)) = "Leaf" }
HashedStorage(sr) == { x \in StorageTrie(sr) : x.hashed }

\* CreateSnapshot has returned, resp. has returned success with every walker
\* done, no halt requested and no iterator restored
RunOver == cpc \in {"returned", "exited"}
CleanRun == RunOver /\ result.st = "ok" /\ ~halted /\ ~restored

\* the catalog one uninterrupted successful run over an empty catalog leaves
FullCatalog ==
  {HeaderRow}
    \cup { StateRow(n) : n \in { m \in StateTrie : ~Skipped(m.path) } }
    \cup { CodeRow(n.codeHash) :
             n \in { m \in Leaves : ~Skipped(m.path)
                                        /\ m.codeHash # emptyCodeHash } }
    \cup UNION { { StorageRow(n.path, x) : x \in HashedStorage(n.storageRoot) } :
                   n \in { m \in Leaves : ~Skipped(m.path) } }

\* C1 (resumability): when a run that was restored from the recovery file of
\* a halted run has ended with success, unhalted and leaving no recovery
\* file, the catalog holds exactly the state, storage and code records one
\* uninterrupted run leaves (batches large enough never to rotate).
C1_Resumability ==
  ( /\ run = 2 /\ restored
    /\ cpc = "exited" /\ result.st = "ok" /\ ~halted /\ ~recoveryFile.exists
    /\ maxBatchSize = defaultBatchSize )
  => catalog = FullCatalog

\* C2 (coverage): when an undisturbed run with one worker and then an
\* undisturbed run with N workers have both returned success, the second
\* has published the same set of state paths as the first.
C2_Coverage ==
  (run = 2 /\ prev.st = "ok" /\ RunOver /\ result.st = "ok")
  => StatePathsIn(emitted) = StatePathsIn(prev.emitted)

\* both runs succeeded, the second with more workers than the root has
\* children, and the whole trie was published
C2_Witness ==
  /\ run = 2 /\ prev.st = "ok" /\ RunOver /\ result.st = "ok"
  /\ workers = 3 /\ StatePathsIn(emitted) = StatePaths

\* C3 (full emission without duplication): after a clean run with nothing
\* watched, every node of the state trie, the root included, has been
\* published exactly once across all walkers, and nothing else as a state
\* node.
C3_FullEmission ==
  (CleanRun /\ watched = {})
  => /\ \A p \in StatePaths : Copies(emitted, StateRow(StateNode(p))) = 1
     /\ \A r \in RowsIn(emitted, "state") : r.sp \in StatePaths

\* a clean run of three walkers over a root with two children: the second
\* partition is empty
C3_Witness ==
  /\ CleanRun /\ watched = {} /\ workers = 3
  /\ iters[2].status = "Done" /\ wk[2].cur = NilPath
  /\ StatePathsIn(emitted) = StatePaths

\* C4 (watched-address restriction): with a non-empty watched set a state
\* node is only ever published at a path that is a prefix of a watched path
\* or extends one, and after a clean run exactly the nodes at such paths have
\* been published.
WatchedAlong(p) ==
  \E k \in seekingPaths : HasPrefix(k, p) \/ HasPrefix(p, k)

C4_WatchedRestriction ==
  watched # {}
  => /\ \A p \in StatePathsIn(emitted) : WatchedAlong(p)
     /\ CleanRun
          => StatePathsIn(emitted) = { p \in StatePaths : WatchedAlong(p) }

\* a clean run that took the branch at <<3>> for the watched leaf <<3, 7>>
\* and left out its sibling <<3, 2>>
C4_Witness ==
  /\ CleanRun /\ watched # {}
  /\ <<3, 7>> \in StatePathsIn(emitted)
  /\ <<3, 2>> \notin StatePathsIn(emitted)

\* C5 (storage completeness): a storage record is only ever published, and
\* then once, for a hashed node of the storage trie of a published account
\* leaf, with that leaf's state path; after a clean run every hashed node of
\* the storage trie of every published leaf has been published once; and
\* the step that enters storageSnapshot for a leaf with the empty storage
\* root keeps the walker's transaction handle and opens no transaction.
C5_Records ==
  /\ \A r \in RowsIn(emitted, "storage") :
        /\ Copies(emitted, r) = 1
        /\ \E n \in Leaves :
             /\ n.path = r.sp /\ Copies(emitted, StateRow(n)) > 0
             /\ n.storageRoot # emptyContractRoot
             /\ \E x \in StorageTrie(n.storageRoot) :
                  x.hashed /\ r = StorageRow(n.path, x)
  /\ CleanRun
       => \A n \in Leaves :
            Copies(emitted, StateRow(n)) > 0
              => \A x \in StorageTrie(n.storageRoot) :
                   x.hashed => Copies(emitted, StorageRow(n.path, x)) = 1

\* walker w enters storageSnapshot in this step
EntersStorage(w) ==
  /\ wk[w].cur # NilPath
  /\ StateNode(wk[w].cur) \in Leaves
  /\ wk'[w].pc \notin {wk[w].pc, "ret", "killed", "idle"}
  /\ \/ wk[w].pc = "code"
     \/ /\ wk[w].pc = "pub"
        /\ StateNode(wk[w].cur).codeHash = emptyCodeHash

C5_EmptyRoot ==
  \A w \in WorkerIds :
    (EntersStorage(w) /\ StateNode(wk[w].cur).storageRoot = emptyContractRoot)
      => /\ wk'[w].ntx = wk[w].ntx
         /\ Len(txs'[w]) = Len(txs[w])
         /\ wk'[w].pc \notin {"sprep", "spub"}
         /\ RowsIn(emitted', "storage") = RowsIn(emitted, "storage")

\* C5 (storage completeness): the records part holds in every state and the
\* empty-root part of every step.
C5_StorageComplete == []C5_Records /\ [][C5_EmptyRoot]_vars

\* a clean run that published the contract at <<3, 2>> with its storage and
\* the account at <<3, 7>>, whose storage root is the empty one
C5_Witness ==
  /\ CleanRun
  /\ Copies(emitted, StateRow(StateNode(<<3, 2>>))) = 1
  /\ Copies(emitted, StateRow(StateNode(<<3, 7>>))) = 1
  /\ Copies(emitted, StorageRow(<<3, 2>>, StorageNode("sA", <<4>>))) = 1

\* C6 (code completeness): a code record is only ever published, and then
\* once, for a published account leaf with a non-empty code hash the archive
\* holds, keyed by that hash; after a clean run every published leaf with a
\* non-empty code hash has had its code published once and a leaf with the
\* empty code hash none; and a walker that fails with "missing code" stands
\* on a leaf whose non-empty code hash the archive lacks, has returned, and
\* no storage record of that account has been published.
CodeCall(n) == Row("code", n.path, <<>>, n.codeHash, "")

C6_CodeComplete ==
  /\ \A r \in RowsIn(emitted, "code") :
        /\ Copies(emitted, r) = 1
        /\ \E n \in Leaves :
             /\ r = CodeCall(n) /\ n.codeHash # emptyCodeHash
             /\ n.codeHash \in codeDB
             /\ Copies(emitted, StateRow(n)) > 0
  /\ CleanRun
       => \A n \in Leaves :
            Copies(emitted, StateRow(n)) > 0
              => /\ n.codeHash # emptyCodeHash => Copies(emitted, CodeCall(n)) = 1
                 /\ n.codeHash \in codeDB \cup {emptyCodeHash}
  /\ \A w \in WorkerIds :
        wk[w].err = "missing code"
          => /\ wk[w].pc \in {"ret", "send", "done", "killed"}
             /\ StateNode(wk[w].cur).codeHash \notin codeDB \cup {emptyCodeHash}
             /\ \A r \in RowsIn(emitted, "storage") : r.sp # wk[w].cur

\* a clean run over the three accounts: two with code, one without
C6_Witness ==
  /\ CleanRun
  /\ \A n \in Leaves : Copies(emitted, StateRow(n)) = 1
  /\ Copies(emitted, CodeCall(StateNode(<<3, 2>>))) = 1
  /\ Copies(emitted, CodeCall(StateNode(<<12>>))) = 1

\* C7 (idempotence): when the command has succeeded twice in a row, each time
\* starting without a recovery file, the catalog after the second run is the
\* catalog after the first.
C7_Idempotence ==
  ( /\ run = 2 /\ ~restored /\ prev.st = "ok"
    /\ cpc = "exited" /\ result.st = "ok" /\ ~halted )
  => catalog = prev.catalog

\* C8 (error propagation): CreateSnapshot returns success only when every
\* walker is done without an error, an error taken from a walker is the error
\* that walker returned, and when every walker is done without an error the
\* value returned is success.
C8_ErrorPropagation ==
  /\ (RunOver /\ result.st = "ok")
       => \A w \in Spawned : wk[w].pc = "done" /\ wk[w].err = ""
  /\ (result.st = "err" /\ result.from # 0)
       => /\ result.from \in Spawned
          /\ wk[result.from].err = result.err /\ result.err # ""
  /\ (RunOver /\ Spawned # {}
        /\ \A w \in Spawned : wk[w].pc = "done" /\ wk[w].err = "")
       => result.st = "ok"

\* the error of one walker has been returned while a second walker failed
C8_Witness ==
  /\ RunOver /\ result.st = "err" /\ result.from # 0
  /\ \E w \in Spawned : w # result.from /\ wk[w].err # ""

\* C9 (no transaction left open): once a walker has returned (it is sending
\* its error or is done), none of the transactions it opened is still open.
C9_NoOpenTx ==
  \A w \in WorkerIds :
    wk[w].pc \in {"send", "done"}
      => \A i \in 1..Len(txs[w]) : txs[w][i].st # "open"

\* C10 (restore fault): when restore yields more iterators than there are
\* workers, CreateSnapshot has failed with the worker-count error, no walker
\* was started, nothing but the header was published, and the recovery file
\* is the one the run found.
C10_RestoreFault ==
  (restored /\ Len(iters) > workers)
  => /\ cpc \in {"failed", "exited"}
     /\ result.st = "err" /\ result.err = "workers"
     /\ Spawned = {}
     /\ emitted = EmptyBag
     /\ catalog \subseteq {HeaderRow}
     /\ recoveryFile = TwoRecordFile

\* a run of one worker that found the file of two records, and has ended
C10_Witness ==
  /\ restored /\ Len(iters) > workers /\ cpc = "exited"
  /\ recoveryFile.exists

\* C11 (haltAndDump on every exit path): CreateSnapshot has returned, and the
\* process ends, only after the deferred tracker.haltAndDump has run; this
\* holds of the normal return, of a walker's error and of every early error
\* return.
C11_DumpOnEveryExit ==
  [][(cpc' = "exited" /\ cpc # "exited") => cpc = "returned"]_vars

\* C12 (no recovery file after a complete run): when CreateSnapshot has
\* returned success and no halt was requested, so that every walker exhausted
\* its iterator, no recovery file exists, also when the run was restored from
\* one.
C12_NoFileAfterCleanRun ==
  (RunOver /\ result.st = "ok" /\ ~halted)
  => /\ \A w \in 1..Len(iters) : iters[w].status = "Done"
     /\ ~recoveryFile.exists

\* a run restored from the file of two records has walked both to the end
C12_Witness ==
  /\ RunOver /\ result.st = "ok" /\ ~halted /\ restored
  /\ Len(iters) = 2 /\ ~recoveryFile.exists

\* C13 (batch size 1): with maximum batch size 1 no committed transaction
\* holds two records, in particular not the state-node record of an account
\* leaf together with its code record.
C13_OneRecordPerTx ==
  maxBatchSize = 1
  => \A w \in WorkerIds : \A i \in 1..Len(txs[w]) :
       txs[w][i].st = "committed" => Cardinality(txs[w][i].rows) <= 1

\* C14 (classification totality): CheckKeyType answers Branch for more than
\* two elements, Extension for two elements whose first byte has high nibble
\* 0 or 1, Leaf for two elements whose first byte has high nibble 2 or 3, and
\* for every other element list (fewer than two elements, two elements with
\* an empty first element or a high nibble of 4 or more) an error: never a
\* node type and never a fault.
C14_ClassifyTotal ==
  nodeType # "none"
  => nodeType =
       IF Len(elements) > 2 THEN "Branch"
       ELSE IF Len(elements) = 2 /\ Len(elements[1]) > 0
                /\ elements[1][1] \div 16 \in {0, 1} THEN "Extension"
       ELSE IF Len(elements) = 2 /\ Len(elements[1]) > 0
                /\ elements[1][1] \div 16 \in {2, 3} THEN "Leaf"
       ELSE "Unknown"


\* ------------------------------------------------ the command, at the head
\* cmd stateSnapshot with a negative block height, run after the process has
\* ended: it calls CreateLatestSnapshot(workers) and hands over no watched
\* address (nor does its other branch: SnapshotParams{Workers, Height}), so
\* the run it starts has params.WatchedAddresses empty.
stateSnapshot ==
  /\ cpc = "exited"
  /\ run < MaxRuns
  /\ run' = run + 1
  /\ prev' = [st |-> result.st, catalog |-> catalog,
              file |-> recoveryFile.exists, emitted |-> emitted]
  /\ cpc' = "start"
  /\ result' = NoResult
  /\ iters' = <<>>
  /\ restored' = FALSE
  /\ wk' = [w \in WorkerIds |-> IdleWalker]
  /\ txs' = [w \in WorkerIds |-> <<>>]
  /\ currBatchSize' = 0
  /\ halted' = FALSE
  /\ waiter' = "idle"
  /\ emitted' = EmptyBag
  /\ watched' = {}
  /\ UNCHANGED <<workers, maxBatchSize, codeDB, archiveFault, faults, catalog,
                 recoveryFile, classified>>

\* Service.CreateSnapshot(height = head, workers, W) called directly, then
\* the command with a negative block height, both undisturbed
NextLatest == Undisturbed \/ stateSnapshot

InitLatest ==
  /\ workers \in 1..MaxWorkers
  /\ watched \in WatchChoices
  /\ maxBatchSize \in {3, defaultBatchSize}
  /\ codeDB = AllCodes
  /\ archiveFault = "none"
  /\ faults = 0
  /\ recoveryFile = NoFile
  /\ InitProcess

SpecLatest == InitLatest /\ [][NextLatest]_vars

\* C15 (a snapshot at the head honours the watched set): when
\* CreateSnapshot at the head height with watched set W and then the command
\* with a negative block height have both returned success, the command's
\* run has published exactly the records the first run published.
C15_LatestHonoursWatched ==
  (run = 2 /\ prev.st = "ok" /\ RunOver /\ result.st = "ok")
  => BagToSet(emitted) = BagToSet(prev.emitted)

\* C16 (no use of a committed handle): a walker that is about to publish
\* holds an open transaction; the handle createSnapshot commits when the
\* walker returns is open, being the one the last rotation opened; and once
\* the walker has returned, every record it published lies in a transaction
\* that was committed or rolled back.
C16_NoCommittedHandle ==
  \A w \in WorkerIds :
    /\ wk[w].pc \in {"pub", "code", "spub"} => txs[w][wk[w].ntx].st = "open"
    /\ wk[w].pc = "ret"
         => wk[w].tx = Len(txs[w]) /\ txs[w][wk[w].tx].st = "open"
    /\ wk[w].pc \in {"send", "done"}
         => \A i \in 1..Len(txs[w]) :
              txs[w][i].rows # {} => txs[w][i].st \in {"committed", "rolledback"}

\* the walkers whose createSnapshot returned an error
FailedWalkers == { w \in Spawned : wk[w].err # "" }

\* C17 (termination under several failures): when two or more walkers have
\* failed and the coordinator has left its select with the first error, no
\* walker is at the send of its error. Only that select receives from the
\* errors channel, so a walker found there can never go on, and neither can
\* the waiter, which waits for it.
C17_NoBlockedSender ==
  (cpc \in {"defer", "returned"} /\ Cardinality(FailedWalkers) >= 2)
  => \A w \in Spawned : wk[w].pc # "send"

\* a step in which walker w calls PrepareTxForBatch, and the handle it passes
PrepareStep(w) ==
  wk[w].pc \in {"prep", "sprep"} /\ wk'[w].pc \notin {wk[w].pc, "killed", "idle"}
HandleGiven(w) == IF wk[w].pc = "prep" THEN wk[w].tx ELSE wk[w].ntx

\* C18 (frame of prepare_tx_for_batch): a call made with the counter below
\* max_batch returns the handle it was given, commits nothing and leaves the
\* counter; a call made with the counter at or above max_batch either
\* commits the given transaction (its rows become durable), returns a freshly
\* opened, empty transaction and sets the counter to 0, or returns an error
\* and leaves the counter as it was.
C18_PrepareTxForBatch ==
  [][\A w \in WorkerIds :
       PrepareStep(w) =>
         LET h == HandleGiven(w)
         IN IF currBatchSize < maxBatchSize
            THEN /\ wk'[w].pc # "ret"
                 /\ wk'[w].ntx = h
                 /\ txs' = txs
                 /\ catalog' = catalog
                 /\ currBatchSize' = currBatchSize
            ELSE \/ /\ wk'[w].pc = "ret"
                    /\ wk'[w].err # ""
                    /\ currBatchSize' = currBatchSize
                 \/ /\ wk'[w].pc # "ret"
                    /\ txs[w][h].st = "open"
                    /\ txs'[w][h].st = "committed"
                    /\ catalog' = Upsert(catalog, txs[w][h].rows)
                    /\ wk'[w].ntx = Len(txs[w]) + 1
                    /\ Len(txs'[w]) = Len(txs[w]) + 1
                    /\ txs'[w][wk'[w].ntx] = NewTx
                    /\ currBatchSize' = 0]_vars

\* a walker is about to publish into the transaction a rotation has just
\* opened, the one before it committed with records in it
C18_Witness ==
  \E w \in WorkerIds :
    /\ wk[w].pc \in {"pub", "spub"}
    /\ Len(txs[w]) >= 2
    /\ wk[w].ntx = Len(txs[w])
    /\ txs[w][wk[w].ntx] = NewTx
    /\ txs[w][Len(txs[w]) - 1].st = "committed"
    /\ txs[w][Len(txs[w]) - 1].rows # {}
    /\ currBatchSize = 0

\* a step in which a loop of walker w takes, by a Next() call, the node it
\* will resolve and publish next: the loop of createSnapshot on a tracked
\* iterator that has been read before (from "loop"), the loop of
\* createSubTrieSnapshot (from "pub": the state node before it has been
\* published) or the loop of storageSnapshot (from "code" or "spub")
TakesNextNode(w) ==
  /\ wk[w].pc \in {"loop", "pub", "code", "spub"}
  /\ wk[w].pc = "loop" => Top(w).status = "Active"
  /\ wk'[w].pc \in {"prep", "sprep"}

\* C19 (halt response): once the halted flag is set, no Next() call of a
\* walker's loops hands it another node to publish: the loop of
\* createSnapshot, the recursive sub-trie walk and the storage-trie walk
\* all end at their next Next().
C19_HaltAtNext ==
  [][halted => \A w \in WorkerIds : ~TakesNextNode(w)]_vars

\* the records walker w has written, in any of its transactions
WrittenBy(w) == UNION { txs[w][i].rows : i \in 1..Len(txs[w]) }
\* walker w publishes a record in this step
Publishes(w) == wk'[w] # wk[w] /\ emitted' # emitted

\* C20 (order within a worker): when a walker publishes the code record of
\* an account leaf it has published the leaf's state-node record before;
\* when it publishes one of the leaf's storage-node records it has published
\* the state-node record before and, if the account has code, the code
\* record too.
C20_OrderWithinWorker ==
  [][\A w \in WorkerIds :
       LET n == StateNode(wk[w].cur)
       IN /\ (wk[w].pc = "code" /\ Publishes(w))
               => StateRow(n) \in WrittenBy(w)
          /\ (wk[w].pc = "spub" /\ Publishes(w))
               => /\ StateRow(n) \in WrittenBy(w)
                  /\ n.codeHash # emptyCodeHash
                       => /\ CodeRow(n.codeHash) \in WrittenBy(w)
                          /\ Copies(emitted, Row("code", n.path, <<>>,
                                                 n.codeHash, "")) > 0]_vars

\* a walker that published the state node and the code of the account at
\* 3,2 is publishing the nodes of its storage trie
C20_Witness ==
  \E w \in WorkerIds :
    /\ wk[w].cur = <<3, 2>>
    /\ wk[w].pc = "sprep"
    /\ wk[w].scur # <<>>
    /\ StateRow(StateNode(<<3, 2>>)) \in WrittenBy(w)
    /\ CodeRow("cA") \in WrittenBy(w)
    /\ \E x \in StorageTrie("sA") : StorageRow(<<3, 2>>, x) \in WrittenBy(w)

\* C21 (a failed final commit is surfaced): a walker whose final commit
\* failed has returned an error, and once CreateSnapshot has returned, it
\* has not reported success if the final commit of any walker failed.
C21_CommitFailureSurfaced ==
  /\ \A w \in WorkerIds :
       (wk[w].pc \in {"send", "done"} /\ wk[w].cerr # "") => wk[w].err # ""
  /\ (RunOver /\ \E w \in Spawned : wk[w].pc = "done" /\ wk[w].cerr # "")
       => result.st # "ok"

\* C23 (rollback on failure): in the step in which a walker that failed
\* returns, every transaction it still has open is rolled back, none is
\* committed, and the catalog is left as it was.
C23_RollbackOnFailure ==
  [][\A w \in WorkerIds :
       (wk[w].pc = "ret" /\ wk[w].err # "" /\ wk'[w].pc \in {"send", "done"})
       => /\ \A i \in 1..Len(txs[w]) :
               txs[w][i].st = "open" => txs'[w][i].st = "rolledback"
          /\ catalog' = catalog]_vars

\* the writes a set of records stands for, as the publisher counts them: two
\* for a state or storage node, one for a code record
WriteCount(rows) ==
  2 * Cardinality({ r \in rows : r.tbl \in {"state", "storage"} })
    + Cardinality({ r \in rows : r.tbl = "code" })

\* C22 (batch bound under interleaving): no open transaction of any walker
\* holds more than maxBatchSize + 2 uncommitted writes.
C22_BatchBound ==
  \A w \in WorkerIds : \A i \in 1..Len(txs[w]) :
    txs[w][i].st = "open" => WriteCount(txs[w][i].rows) <= maxBatchSize + 2

\* C24 (dispatch for every iterator count): the step in which CreateSnapshot
\* dispatches the walkers ends without a fault and starts no walker when
\* there is no iterator, does not enter createSnapshotAsync (no goroutine, no
\* waiter) when there is one iterator, and starts exactly one walker per
\* iterator when there are several.
C24_DispatchSafe ==
  [][(cpc = "dispatch" /\ cpc' # "dispatch")
       => /\ result'.st # "panic"
          /\ Len(iters) = 0 => \A w \in WorkerIds : wk'[w].pc = "idle"
          /\ Len(iters) = 1 => cpc' # "select" /\ waiter' = "idle"
          /\ Len(iters) > 1
               => { w \in WorkerIds : wk'[w].pc # "idle" } = 1..Len(iters)]_vars

====
